---- MODULE Spec2Model ----
(***************************************************************************)
(* Model of the typed tensor handle of mnn-rs (src/src/tensor.rs).         *)
(*                                                                         *)
(* The foreign engine is a heap of tensor objects addressed by pointers;   *)
(* a Tensor<T> is a slot holding a pointer, its capability descriptor T    *)
(* and its compile-time element type T::H.  A descriptor is the sequence   *)
(* of its type constructors, outermost first: Ref<'_, Host<H>> is          *)
(* <<"Ref", "Host">>.  What the borrow checker enforces on the lifetimes   *)
(* that appear in the signatures is a guard of the action.                 *)
(***************************************************************************)
EXTENDS Integers, Sequences, FiniteSets, TLC

\* ---- bounds of the model ------------------------------------------------
\* Tensor<T> values alive at once
MaxHandles == 2
\* foreign tensor objects alive in the engine at once
MaxPtr == 2
\* caller-supplied buffers
MaxBufs == 1
\* nesting depth of Ref / RefMut in a descriptor
MaxWrap == 1
\* RawTensor values alive at once
MaxRaws == 2
\* length of the sequences handed to as_tensor_shape
MaxLen == 5
\* wrappers around a base descriptor
MaxNest == 3
\* model paths on the benchmark tool's command line
MaxModels == 2
\* children of one run that do not deliver metrics
MaxFailures == 2
\* chunks an OS pipe holds before a write to it blocks
PipeCap == 2

ElemTypes == {"f32", "i32"}
\* element type of the handles the client constructs itself
ClientTypes == {"f32"}
Values == {0, 1}
Uninit == -1
ShapeInputs == {<<1>>, <<2>>}
\* the shape of test_tensor_borrowed and test_tensor_borrow_mut, and a flat one
DataShapes == {<<2>>, <<1, 2, 3>>}
CallerData == <<0, 1>>
EngineCodes == {0, 1}

Handles == 1..MaxHandles
Ptrs == 1..MaxPtr
Bufs == 1..MaxBufs
Raws == 1..MaxRaws

\* ---- DimensionType (tensor.rs 142-173) -----------------------------------
DimensionType == {"Caffe", "CaffeC4", "TensorFlow"}

to_mnn_sys(dm) ==
    CASE dm = "Caffe" -> "CAFFE"
      [] dm = "CaffeC4" -> "CAFFE_C4"
      [] dm = "TensorFlow" -> "TENSORFLOW"

from_mnn_sys(dm) ==
    CASE dm = "CAFFE" -> "Caffe"
      [] dm = "CAFFE_C4" -> "CaffeC4"
      [] dm = "TENSORFLOW" -> "TensorFlow"

\* ---- capability descriptors (tensor.rs 18-85) ----------------------------
RECURSIVE DescsOfDepth(_)
DescsOfDepth(n) ==
    IF n = 0 THEN {<<"Host">>, <<"Device">>}
    ELSE DescsOfDepth(n - 1) \cup
         {<<w>> \o d : w \in {"Ref", "RefMut"}, d \in DescsOfDepth(n - 1)}

Descriptors == DescsOfDepth(MaxWrap)

RECURSIVE TT_owned(_)
TT_owned(d) ==
    CASE Head(d) = "Host" -> TRUE
      [] Head(d) = "Device" -> TRUE
      [] Head(d) = "Ref" -> FALSE
      [] Head(d) = "RefMut" -> FALSE
      [] OTHER -> TT_owned(Tail(d))

\* the default method is !Self::owned(); Dyn<T> overrides it with T::borrowed()
RECURSIVE TT_borrowed(_)
TT_borrowed(d) == IF Head(d) = "Dyn" THEN TT_borrowed(Tail(d)) ELSE ~TT_owned(d)

RECURSIVE TT_host(_)
TT_host(d) ==
    CASE Head(d) = "Host" -> TRUE
      [] Head(d) = "Device" -> FALSE
      [] OTHER -> TT_host(Tail(d))

\* the default method is !Self::host(); Dyn<T> overrides it with T::device()
RECURSIVE TT_device(_)
TT_device(d) == IF Head(d) = "Dyn" THEN TT_device(Tail(d)) ELSE ~TT_host(d)

RECURSIVE HostTensorType(_)
HostTensorType(d) ==
    CASE Head(d) = "Host" -> TRUE
      [] Head(d) \in {"Ref", "RefMut"} -> HostTensorType(Tail(d))
      [] OTHER -> FALSE

RECURSIVE DeviceTensorType(_)
DeviceTensorType(d) ==
    CASE Head(d) = "Device" -> TRUE
      [] Head(d) \in {"Ref", "RefMut"} -> DeviceTensorType(Tail(d))
      [] OTHER -> FALSE

OwnedTensorType(d) == d = <<"Host">> \/ d = <<"Device">>

RefTensorType(d) == Head(d) \in {"Ref", "RefMut"}

MutableTensorType(d) == OwnedTensorType(d) \/ Head(d) = "RefMut"

\* ---- element types --------------------------------------------------------
halide_type_of(H) ==
    CASE H = "f32" -> <<"halide_type_float", 32, 1>>
      [] H = "i32" -> <<"halide_type_int", 32, 1>>

type_name(H) == H

\* ---- shapes (tensor.rs 470-556) -------------------------------------------
Take4(s) == [i \in 1..4 |-> IF i <= Len(s) THEN s[i] ELSE 1]

\* a normalisation that counts the padding into size
as_tensor_shape_padded(this) ==
    IF Len(this) > 4
    THEN [shape |-> SubSeq(this, 1, 4), size |-> 4]
    ELSE [shape |-> Take4(this), size |-> 4]

as_tensor_shape(this) ==
    IF Len(this) > 4
    THEN [shape |-> SubSeq(this, 1, 4), size |-> 4]
    ELSE [shape |-> Take4(this), size |-> Len(this)]

\* a deref that hands out the four storage slots
deref_storage(ts) == ts.shape

deref(ts) == SubSeq(ts.shape, 1, ts.size)

\* impl Index<usize> for TensorShape: &self.shape[..self.size][index]
index(ts, i) ==
    IF i < ts.size THEN [res |-> "ok", elem |-> ts.shape[i + 1]]
    ELSE [res |-> "panic", elem |-> 0]

\* impl AsTensorShape for TensorShape: *self
TensorShape_as_tensor_shape(ts) == ts

\* extents: -1 is a dimension not yet resolved
DimValues == {-1, 1, 3}

ShapeSeqs == UNION {[1..n -> DimValues] : n \in 0..MaxLen}

RECURSIVE Product(_)
Product(s) == IF s = <<>> THEN 1 ELSE Head(s) * Product(Tail(s))

\* ---- state ----------------------------------------------------------------
VARIABLES
    heap,       \* the engine's tensor objects, by pointer
    handles,    \* the Tensor<T> values of the client, by slot
    cbufs,      \* the caller's own buffers handed to borrowed / borrowed_mut
    last,       \* what the last operation did and returned
    raws,       \* the RawTensor values of the client, by slot
    shape_io,   \* a call of AsTensorShape::as_tensor_shape and what became of it
    cap_io,     \* a capability descriptor and what its predicates answer
    bench       \* the benchmark tool's exec mode (tools/bencher)

vars == <<heap, handles, cbufs, last, raws, shape_io, cap_io, bench>>

\* the state of the programs other than the tensor handle
outside == <<shape_io, cap_io, bench>>

NoTensor ==
    [st |-> "unalloc", loc |-> "", tag |-> <<>>, dm |-> "", dims |-> <<>>,
     data |-> <<>>, ext |-> 0, destroys |-> 0]

NoHandle == [live |-> FALSE, tensor |-> 0, T |-> <<>>, H |-> "", src |-> 0]

NoError == [kind |-> "", got |-> "", code |-> 0]

NoResult ==
    [op |-> "", T |-> <<>>, H |-> "", res |-> "", err |-> NoError, view |-> <<>>,
     wrote |-> FALSE, released |-> FALSE, tensor |-> 0, newp |-> 0, out |-> 0,
     ret |-> 1, tries |-> 0, dm_type |-> "", input |-> 0, copy_data |-> FALSE,
     value |-> 0, staged |-> NoTensor]

Result(op, T, res) == [NoResult EXCEPT !.op = op, !.T = T, !.res = res]

ResultOf(op, hd, res) == [Result(op, hd.T, res) EXCEPT !.H = hd.H, !.tensor = hd.tensor]

\* RawTensor { inner }
NoRaw == [live |-> FALSE, inner |-> 0]

\* TensorShape { shape, size } before any is made
NoShape == [shape |-> <<>>, size |-> 0]

NoShapeCall ==
    [input |-> <<>>, op |-> "", out |-> NoShape, again |-> NoShape,
     index |-> 0, elem |-> 0, res |-> ""]

NoAnswers ==
    [asked |-> FALSE, owned |-> FALSE, borrowed |-> FALSE, host |-> FALSE,
     device |-> FALSE, Owned |-> FALSE, Mutable |-> FALSE]

NoDescriptor == [T |-> <<>>, is |-> NoAnswers, inner |-> NoAnswers]

NoItems == [forward |-> <<>>, power |-> <<>>, precision |-> <<>>, memory |-> <<>>]
\* one exec_bench call: the parent's position, the child and what it still has
\* to write, the two pipes, the stderr reader thread and its progress bar
NoExec ==
    [pc |-> "", child |-> "", status |-> "", to_out |-> 0, to_err |-> 0,
     out |-> 0, err |-> 0, got |-> 0, reader |-> "", finished |-> FALSE]

NoBench ==
    [pc |-> "", models |-> <<>>, sc_items |-> NoItems, m |-> 0, todo |-> <<>>,
     children |-> <<>>, result |-> <<>>, exec |-> NoExec]

\* no tensor, handle or RawTensor yet; the caller's buffers hold their data
InitTensor ==
    /\ heap = [p \in Ptrs |-> NoTensor]
    /\ handles = [h \in Handles |-> NoHandle]
    /\ cbufs = [b \in Bufs |-> [st |-> "alive", data |-> CallerData]]
    /\ last = NoResult
    /\ raws = [r \in Raws |-> NoRaw]

Init ==
    /\ InitTensor
    /\ shape_io = NoShapeCall
    /\ cap_io = NoDescriptor
    /\ bench = NoBench

Live(h) == handles[h].live

FreeSlots == {h \in Handles : ~Live(h)}
FreePtrs == {p \in Ptrs : heap[p].st # "live"}

Min(S) == CHOOSE x \in S : \A y \in S : x <= y

\* a handle made by as_ref borrows its owner for as long as it lives
Frozen(h) == \E k \in Handles : Live(k) /\ handles[k].src = h

\* ---- the engine (Tensor_c.h as called from tensor.rs) ---------------------
Fresh(n) == [i \in 1..n |-> Uninit]

Tensor_createWith(shape, size, tag, dataPtr, dm) ==
    [st |-> "live", loc |-> "host", tag |-> tag, dm |-> dm,
     dims |-> SubSeq(shape, 1, size),
     data |-> IF dataPtr = 0 THEN Fresh(Product(SubSeq(shape, 1, size))) ELSE <<>>,
     ext |-> dataPtr, destroys |-> 0]

Tensor_createDevice(shape, size, tag, dm) ==
    [st |-> "live", loc |-> "device", tag |-> tag, dm |-> dm,
     dims |-> SubSeq(shape, 1, size),
     data |-> Fresh(Product(SubSeq(shape, 1, size))),
     ext |-> 0, destroys |-> 0]

Tensor_destroy(t) ==
    [NoTensor EXCEPT !.st = "destroyed", !.destroys = t.destroys + 1]

Tensor_clone(t) == [t EXCEPT !.destroys = 0]

Tensor_elementSize(t) == Product(t.dims)

Tensor_getDimensionType(t) == t.dm

Tensor_isTypeOf(t, htc) == t.tag = htc

Tensor_shape(t) == [shape |-> Take4(t.dims), size |-> Len(t.dims)]

\* ---- Tensor<T> (tensor.rs 101-132, 381-468) --------------------------------
\* a drop that releases whatever the descriptor
DropReleasesAlways(T) == TRUE

DropReleases(T) == TT_owned(T)

NewLayout(T, dm_type) ==
    IF TT_device(T) THEN to_mnn_sys(dm_type) ELSE to_mnn_sys("Caffe")

\* an allocation that asks the engine for f32 elements whatever H is
NewTensorFloat(T, H, shape_in, dm_type) ==
    LET shape == as_tensor_shape(shape_in) IN
    IF TT_device(T)
    THEN Tensor_createDevice(shape.shape, shape.size, halide_type_of("f32"),
                             NewLayout(T, dm_type))
    ELSE Tensor_createWith(shape.shape, shape.size, halide_type_of("f32"), 0,
                           NewLayout(T, dm_type))

NewTensor(T, H, shape_in, dm_type) ==
    LET shape == as_tensor_shape(shape_in) IN
    IF TT_device(T)
    THEN Tensor_createDevice(shape.shape, shape.size, halide_type_of(H),
                             NewLayout(T, dm_type))
    ELSE Tensor_createWith(shape.shape, shape.size, halide_type_of(H), 0,
                           NewLayout(T, dm_type))

new(T, H, shape_in, dm_type) ==
    /\ OwnedTensorType(T)
    /\ FreeSlots # {} /\ FreePtrs # {}
    /\ LET h == Min(FreeSlots)
           p == Min(FreePtrs)
       IN /\ heap' = [heap EXCEPT ![p] = NewTensor(T, H, shape_in, dm_type)]
          /\ handles' = [handles EXCEPT ![h] =
                 [live |-> TRUE, tensor |-> p, T |-> T, H |-> H, src |-> 0]]
          /\ last' = [Result("new", T, "ok") EXCEPT !.H = H,
                          !.newp = p, !.out = h, !.dm_type = dm_type]
    /\ UNCHANGED cbufs
    /\ UNCHANGED <<raws, outside>>

\* a clone that copies the pointer instead of the tensor
CloneHandleShallow(s, tensor_ptr) ==
    [live |-> TRUE, tensor |-> handles[s].tensor, T |-> handles[s].T,
     H |-> handles[s].H, src |-> 0]

\* Self { tensor: tensor_ptr, .. } of clone
CloneHandle(s, tensor_ptr) ==
    [live |-> TRUE, tensor |-> tensor_ptr, T |-> handles[s].T,
     H |-> handles[s].H, src |-> 0]

clone(s) ==
    /\ Live(s) /\ OwnedTensorType(handles[s].T)
    /\ FreeSlots # {} /\ FreePtrs # {}
    /\ LET h == Min(FreeSlots)
           p == Min(FreePtrs)
       IN /\ heap' = [heap EXCEPT ![p] = Tensor_clone(heap[handles[s].tensor])]
          /\ handles' = [handles EXCEPT ![h] = CloneHandle(s, p)]
          /\ last' = [ResultOf("clone", handles[s], "ok") EXCEPT
                          !.tensor = handles[s].tensor, !.newp = p, !.out = h]
    /\ UNCHANGED cbufs
    /\ UNCHANGED <<raws, outside>>

\* Tensor { tensor: self.tensor, .. } of as_ref, borrowing self for '_
AsRefHandle(s) ==
    [live |-> TRUE, tensor |-> handles[s].tensor,
     T |-> <<"Ref">> \o handles[s].T, H |-> handles[s].H, src |-> s]

as_ref(s) ==
    /\ Live(s) /\ handles[s].T \in {<<"Host">>, <<"Device">>}
    /\ FreeSlots # {}
    /\ LET h == Min(FreeSlots) IN
          /\ handles' = [handles EXCEPT ![h] = AsRefHandle(s)]
          /\ last' = [ResultOf("as_ref", handles[s], "ok") EXCEPT
                          !.tensor = handles[s].tensor, !.out = h]
    /\ UNCHANGED <<heap, cbufs>>
    /\ UNCHANGED <<raws, outside>>

drop(h) ==
    /\ Live(h) /\ ~Frozen(h)
    /\ LET p == handles[h].tensor IN
          /\ heap' = IF DropReleases(handles[h].T)
                     THEN [heap EXCEPT ![p] = Tensor_destroy(heap[p])]
                     ELSE heap
          /\ last' = [ResultOf("drop", handles[h], "ok") EXCEPT
                          !.tensor = p,
                          !.released = DropReleases(handles[h].T)]
    /\ handles' = [handles EXCEPT ![h] = NoHandle]
    /\ UNCHANGED cbufs
    /\ UNCHANGED <<raws, outside>>

\* ---- host memory behind a tensor ------------------------------------------
\* the cells Tensor_host(p) points at: the engine's own allocation, or the
\* caller's buffer handed to Tensor_createWith (no cell is valid once freed)
Tensor_host(hp, cb, p) ==
    LET t == hp[p] IN
    IF t.ext = 0 THEN t.data
    ELSE IF cb[t.ext].st = "alive" THEN cb[t.ext].data ELSE <<>>

\* core::slice::from_raw_parts(data, size); cells past the allocation are garbage
from_raw_parts(mem, size) ==
    [i \in 1..size |-> IF i <= Len(mem) THEN mem[i] ELSE Uninit]

element_size(t) == Tensor_elementSize(t)

Mem(hp, cb, p) == from_raw_parts(Tensor_host(hp, cb, p), element_size(hp[p]))

\* what a read of the cells can return: an uninitialised cell reads as anything
Views(m) ==
    {v \in [1..Len(m) -> Values] : \A i \in 1..Len(m) : m[i] = Uninit \/ v[i] = m[i]}

Overlay(d, old) == [i \in 1..Len(old) |-> IF i <= Len(d) THEN d[i] ELSE old[i]]

\* a store that lands in every engine-owned host tensor, as if clones shared
\* one buffer
StoreShared(hp, cb, p, d) ==
    {[heap |-> [q \in Ptrs |->
                  IF q = p THEN [hp[q] EXCEPT !.data = d]
                  ELSE IF hp[q].st = "live" /\ hp[q].loc = "host" /\ hp[q].ext = 0
                       THEN [hp[q] EXCEPT !.data = Overlay(d, @)]
                       ELSE hp[q]],
      cbufs |-> cb]}

\* the memories a store of d through Tensor_host_mut(p) can leave behind; a
\* store into freed memory is lost or lands in a live allocation that reuses it
Store(hp, cb, p, d) ==
    LET t == hp[p] IN
    IF t.ext = 0
    THEN {[heap |-> [hp EXCEPT ![p].data = d], cbufs |-> cb]}
    ELSE IF cb[t.ext].st = "alive"
         THEN {[heap |-> hp,
                cbufs |-> [cb EXCEPT ![t.ext].data = Overlay(d, @)]]}
         ELSE {[heap |-> hp, cbufs |-> cb]} \cup
              {[heap |-> [hp EXCEPT ![q].data = Overlay(d, @)], cbufs |-> cb] :
                 q \in {r \in Ptrs : hp[r].st = "live" /\ hp[r].loc = "host"
                                     /\ hp[r].ext = 0}}

\* ---- Tensor<T>: host access (tensor.rs 279-356) ----------------------------
is_type_of(t, H) == Tensor_isTypeOf(t, halide_type_of(H))

HalideTypeMismatch(H) ==
    [kind |-> "HalideTypeMismatch", got |-> type_name(H), code |-> 0]

TensorCopyFailed(code) == [kind |-> "TensorCopyFailed", got |-> "", code |-> code]

\* a view handed out without the is_type_of check
TryHostUnchecked(t, H, slice) == [res |-> "ok", err |-> NoError, view |-> slice]

\* the Result of try_host / try_host_mut, given the slice the cast would give
TryHostResult(t, H, slice) ==
    IF is_type_of(t, H)
    THEN [res |-> "ok", err |-> NoError, view |-> slice]
    ELSE [res |-> "err", err |-> HalideTypeMismatch(H), view |-> <<>>]

\* an expect that hands the error on
ExpectLenient(r) == r

\* Result::expect
Expect(r) == IF r.res = "ok" THEN r ELSE [r EXCEPT !.res = "panic"]

HostMutBound(T) == HostTensorType(T)

try_host(h) ==
    /\ Live(h) /\ HostTensorType(handles[h].T)
    /\ \E slice \in Views(Mem(heap, cbufs, handles[h].tensor)) :
          LET r == TryHostResult(heap[handles[h].tensor], handles[h].H, slice) IN
          last' = [ResultOf("try_host", handles[h], r.res) EXCEPT
                       !.err = r.err, !.view = r.view,
                       !.tensor = handles[h].tensor]
    /\ UNCHANGED <<heap, handles, cbufs>>
    /\ UNCHANGED <<raws, outside>>

host(h) ==
    /\ Live(h) /\ HostTensorType(handles[h].T)
    /\ \E slice \in Views(Mem(heap, cbufs, handles[h].tensor)) :
          LET r == Expect(TryHostResult(heap[handles[h].tensor],
                                        handles[h].H, slice)) IN
          last' = [ResultOf("host", handles[h], r.res) EXCEPT
                       !.err = r.err, !.view = r.view,
                       !.tensor = handles[h].tensor]
    /\ UNCHANGED <<heap, handles, cbufs>>
    /\ UNCHANGED <<raws, outside>>

\* try_host_mut / host_mut, and what the caller then does with the &mut [H]:
\* nothing, or slice.fill(w) as in test_tensor_borrow_mut
HostMutCall(op, h, write, w, fatal) ==
    /\ Live(h) /\ HostMutBound(handles[h].T) /\ ~Frozen(h)
    /\ LET p == handles[h].tensor
           t == heap[p]
       IN /\ ~write => w = 0
          /\ \E slice \in (IF write THEN {Mem(heap, cbufs, p)}
                          ELSE Views(Mem(heap, cbufs, p))) :
                LET r0 == TryHostResult(t, handles[h].H, slice)
                    r == IF fatal THEN Expect(r0) ELSE r0
                    writes == r.res = "ok" /\ write
                    d == [i \in 1..Len(slice) |-> w]
                IN \E m \in (IF writes THEN Store(heap, cbufs, p, d)
                             ELSE {[heap |-> heap, cbufs |-> cbufs]}) :
                      /\ heap' = m.heap
                      /\ cbufs' = m.cbufs
                      /\ last' = [ResultOf(op, handles[h], r.res) EXCEPT
                                      !.err = r.err,
                                      !.view = IF writes THEN d ELSE r.view,
                                      !.wrote = writes, !.tensor = p,
                                      !.value = IF writes THEN w ELSE 0]
    /\ UNCHANGED handles
    /\ UNCHANGED <<raws, outside>>

try_host_mut(h, write, w) == HostMutCall("try_host_mut", h, write, w, FALSE)

host_mut(h, write, w) == HostMutCall("host_mut", h, write, w, TRUE)

\* ---- Tensor<T>: copies (tensor.rs 190-202) ---------------------------------
\* the engine copies only between tensors of one element type and count, and
\* answers non-zero exactly when it copied
Compatible(dst, src) ==
    dst.tag = src.tag /\ Tensor_elementSize(dst) = Tensor_elementSize(src)

CopyCodes(dst, src) == IF Compatible(dst, src) THEN EngineCodes ELSE {0}

EngineSuccess(ret) == ret # 0

\* how many times the wrapper calls the engine's copy, given its first answer
CopyAttempts(ret) == 1

\* the ensure! with its condition inverted
CopyResultInverted(ret) ==
    IF ret = 0
    THEN [res |-> "ok", err |-> NoError, view |-> <<>>]
    ELSE [res |-> "err", err |-> TensorCopyFailed(ret), view |-> <<>>]

CopyResult(ret) ==
    IF ret # 0
    THEN [res |-> "ok", err |-> NoError, view |-> <<>>]
    ELSE [res |-> "err", err |-> TensorCopyFailed(ret), view |-> <<>>]

\* self.copy_from_host_tensor(&src)
copy_from_host_tensor(h, s, ret) ==
    /\ Live(h) /\ Live(s) /\ h # s /\ ~Frozen(h)
    /\ handles[s].T = <<"Host">> /\ handles[s].H = handles[h].H
    /\ LET dst == handles[h].tensor
           src == handles[s].tensor
           r == CopyResult(ret)
       IN /\ ret \in CopyCodes(heap[dst], heap[src])
          /\ \E m \in (IF EngineSuccess(ret)
                       THEN Store(heap, cbufs, dst, Mem(heap, cbufs, src))
                       ELSE {[heap |-> heap, cbufs |-> cbufs]}) :
                /\ heap' = m.heap
                /\ cbufs' = m.cbufs
          /\ last' = [ResultOf("copy_from_host_tensor", handles[h], r.res) EXCEPT
                          !.err = r.err, !.tensor = dst, !.ret = ret,
                          !.tries = CopyAttempts(ret), !.wrote = EngineSuccess(ret)]
    /\ UNCHANGED handles
    /\ UNCHANGED <<raws, outside>>

\* self.copy_to_host_tensor(&mut dst)
copy_to_host_tensor(h, d, ret) ==
    /\ Live(h) /\ Live(d) /\ h # d /\ ~Frozen(d)
    /\ handles[d].T = <<"Host">> /\ handles[d].H = handles[h].H
    /\ LET src == handles[h].tensor
           dst == handles[d].tensor
           r == CopyResult(ret)
       IN /\ ret \in CopyCodes(heap[dst], heap[src])
          /\ \E m \in (IF EngineSuccess(ret)
                       THEN Store(heap, cbufs, dst, Mem(heap, cbufs, src))
                       ELSE {[heap |-> heap, cbufs |-> cbufs]}) :
                /\ heap' = m.heap
                /\ cbufs' = m.cbufs
          /\ last' = [ResultOf("copy_to_host_tensor", handles[h], r.res) EXCEPT
                          !.err = r.err, !.tensor = src, !.ret = ret,
                          !.tries = CopyAttempts(ret), !.wrote = EngineSuccess(ret)]
    /\ UNCHANGED handles
    /\ UNCHANGED <<raws, outside>>

\* ---- Tensor<T>: fill (tensor.rs 284-311) -----------------------------------
FillBound(T) == MutableTensorType(T)

\* a fill that stops after the first element
FillHostFirst(hp, cb, p, H, value) ==
    IF is_type_of(hp[p], H)
    THEN [res : {"ok"}, m : Store(hp, cb, p, <<value>>)]
    ELSE [res : {"panic"}, m : {[heap |-> hp, cbufs |-> cb]}]

\* the host branch on tensor p: the assert, then result.fill(value)
FillHost(hp, cb, p, H, value) ==
    IF is_type_of(hp[p], H)
    THEN [res : {"ok"},
          m : Store(hp, cb, p, [i \in 1..element_size(hp[p]) |-> value])]
    ELSE [res : {"panic"}, m : {[heap |-> hp, cbufs |-> cb]}]

\* what .expect() makes of the staged copy's status in the device branch
FillCopyOutcome(ret) == Expect(CopyResult(ret)).res

fill(h, value, ret) ==
    /\ Live(h) /\ FillBound(handles[h].T) /\ ~Frozen(h)
    /\ LET p == handles[h].tensor
           T == handles[h].T
           H == handles[h].H
       IN IF TT_host(T)
          THEN \E o \in FillHost(heap, cbufs, p, H, value) :
                  /\ heap' = o.m.heap
                  /\ cbufs' = o.m.cbufs
                  /\ last' = [ResultOf("fill", handles[h], o.res) EXCEPT
                                  !.tensor = p, !.wrote = (o.res = "ok"),
                                  !.view = IF o.res = "ok"
                                           THEN [i \in 1..element_size(heap[p]) |-> value]
                                           ELSE <<>>,
                                  !.value = value]
          ELSE /\ FreePtrs # {}
               /\ LET q == Min(FreePtrs)
                      shape == Tensor_shape(heap[p])
                      dm_type == from_mnn_sys(Tensor_getDimensionType(heap[p]))
                      hp1 == [heap EXCEPT ![q] =
                                 NewTensor(<<"Host">>, H, deref(shape), dm_type)]
                  IN \E o \in FillHost(hp1, cbufs, q, H, value) :
                        LET ran == o.res = "ok"
                            copied == ran /\ EngineSuccess(ret)
                            hp2 == IF copied
                                   THEN [o.m.heap EXCEPT ![p].data = o.m.heap[q].data]
                                   ELSE o.m.heap
                        IN /\ ret \in CopyCodes(heap[p], o.m.heap[q])
                           /\ heap' = [hp2 EXCEPT ![q] = Tensor_destroy(hp2[q])]
                           /\ cbufs' = o.m.cbufs
                           /\ last' = [ResultOf("fill", handles[h],
                                         IF ran THEN FillCopyOutcome(ret)
                                         ELSE "panic") EXCEPT
                                         !.tensor = p, !.newp = q,
                                         !.wrote = copied,
                                         !.ret = IF ran THEN ret ELSE 1,
                                         !.tries = IF ran THEN CopyAttempts(ret) ELSE 0,
                                         !.value = value, !.staged = hp1[q]]
    /\ UNCHANGED handles
    /\ UNCHANGED <<raws, outside>>

\* ---- Tensor<T: DeviceTensorType> (tensor.rs 358-379) ------------------------
\* a copy failure that is ignored
FromDeviceSwallowed(ret) == "ok"

\* what .expect() makes of the copy's status
FromDeviceOutcome(ret) == Expect(CopyResult(ret)).res

create_host_tensor_from_device(h, copy_data, ret) ==
    /\ Live(h) /\ DeviceTensorType(handles[h].T)
    /\ FreeSlots # {} /\ FreePtrs # {}
    /\ LET p == handles[h].tensor
           H == handles[h].H
           q == Min(FreePtrs)
           k == Min(FreeSlots)
           shape == Tensor_shape(heap[p])
           dm_type == from_mnn_sys(Tensor_getDimensionType(heap[p]))
           out == NewTensor(<<"Host">>, H, deref(shape), dm_type)
           res == IF copy_data THEN FromDeviceOutcome(ret) ELSE "ok"
           copied == copy_data /\ EngineSuccess(ret)
           filled == IF copied THEN [out EXCEPT !.data = heap[p].data] ELSE out
       IN /\ ret \in CopyCodes(out, heap[p])
          /\ ~copy_data => ret = 1
          /\ heap' = [heap EXCEPT ![q] =
                          IF res = "panic" THEN Tensor_destroy(filled) ELSE filled]
          /\ handles' = IF res = "panic" THEN handles
                        ELSE [handles EXCEPT ![k] =
                                 [live |-> TRUE, tensor |-> q, T |-> <<"Host">>,
                                  H |-> H, src |-> 0]]
          /\ last' = [ResultOf("create_host_tensor_from_device", handles[h], res)
                        EXCEPT !.tensor = p, !.newp = q,
                               !.out = IF res = "panic" THEN 0 ELSE k,
                               !.wrote = copied,
                               !.ret = IF copy_data THEN ret ELSE 1,
                               !.tries = IF copy_data THEN CopyAttempts(ret) ELSE 0,
                               !.copy_data = copy_data]
    /\ UNCHANGED cbufs
    /\ UNCHANGED <<raws, outside>>

\* ---- Tensor<T: HostTensorType + RefTensorType> (tensor.rs 601-642) ----------
\* input is the caller's buffer b: by reference (moved = FALSE), or by value,
\* when it is dropped as the constructor returns
BorrowCall(op, T, H, shape_in, b, moved) ==
    /\ T \in Descriptors /\ HostTensorType(T) /\ RefTensorType(T)
    /\ cbufs[b].st = "alive"
    /\ FreeSlots # {} /\ FreePtrs # {}
    /\ LET h == Min(FreeSlots)
           p == Min(FreePtrs)
           shape == as_tensor_shape(shape_in)
       IN /\ heap' = [heap EXCEPT ![p] =
                 Tensor_createWith(shape.shape, shape.size, halide_type_of(H), b,
                                   to_mnn_sys("Caffe"))]
          /\ handles' = [handles EXCEPT ![h] =
                 [live |-> TRUE, tensor |-> p, T |-> T, H |-> H, src |-> 0]]
          /\ last' = [Result(op, T, "ok") EXCEPT !.H = H, !.newp = p, !.out = h, !.input = b]
    /\ cbufs' = IF moved THEN [cbufs EXCEPT ![b] = [st |-> "dropped", data |-> <<>>]]
                ELSE cbufs
    /\ UNCHANGED <<raws, outside>>

borrowed(T, H, shape_in, b, moved) == BorrowCall("borrowed", T, H, shape_in, b, moved)

borrowed_mut(T, H, shape_in, b, moved) ==
    BorrowCall("borrowed_mut", T, H, shape_in, b, moved)

\* the lifetime 't of the Ref / RefMut that borrowed and borrowed_mut return is
\* not tied to input, so the caller's buffer may go while handles over it live
BufferPinned(b) == FALSE

drop_buffer(b) ==
    /\ cbufs[b].st = "alive" /\ ~BufferPinned(b)
    /\ cbufs' = [cbufs EXCEPT ![b] = [st |-> "dropped", data |-> <<>>]]
    /\ last' = [Result("drop_buffer", <<>>, "ok") EXCEPT !.input = b]
    /\ UNCHANGED <<heap, handles>>
    /\ UNCHANGED <<raws, outside>>

\* ---- unsafe adoption (tensor.rs 183-189) -----------------------------------
\* a tensor the excluded session layer has the engine make (an input or an
\* output of a session, holding data) before it hands the pointer over
engine_tensor(loc, H, shape_in, dm) ==
    LET shape == as_tensor_shape(shape_in)
        t == IF loc = "device"
             THEN Tensor_createDevice(shape.shape, shape.size, halide_type_of(H), dm)
             ELSE Tensor_createWith(shape.shape, shape.size, halide_type_of(H), 0, dm)
    IN [t EXCEPT !.data = [i \in 1..Len(t.data) |-> 0]]

EngineTensors ==
    {engine_tensor(loc, H, s, "CAFFE") :
        loc \in {"host", "device"}, H \in ElemTypes, s \in ShapeInputs}

\* from_ptr(tensor): 0 is the null pointer, any other pointer is to the tensor
\* `made` that the engine has just created; the caller's side of the contract
\* is a tensor of T's location
from_ptr(T, H, tensor, made) ==
    /\ T \in Descriptors
    /\ FreeSlots # {}
    /\ IF tensor # 0
       THEN /\ FreePtrs # {} /\ tensor = Min(FreePtrs)
            /\ made \in EngineTensors
            /\ (made.loc = "host") = TT_host(T)
       ELSE made = NoTensor
    /\ IF tensor # 0
       THEN /\ heap' = [heap EXCEPT ![tensor] = made]
            /\ handles' = [handles EXCEPT ![Min(FreeSlots)] =
                   [live |-> TRUE, tensor |-> tensor, T |-> T, H |-> H, src |-> 0]]
            /\ last' = [Result("from_ptr", T, "ok") EXCEPT !.H = H,
                            !.tensor = tensor, !.out = Min(FreeSlots)]
       ELSE /\ UNCHANGED <<heap, handles>>
            /\ last' = Result("from_ptr", T, "panic")
    /\ UNCHANGED cbufs
    /\ UNCHANGED <<raws, outside>>

\* ---- RawTensor (tensor.rs 683-726) ------------------------------------------
FreeRaws == {r \in Raws : ~raws[r].live}

\* RawTensor { inner: tensor }, made by the excluded session layer around a
\* pointer the engine has just handed out: null, or the tensor `made`
raw_tensor(tensor, made) ==
    /\ FreeRaws # {}
    /\ IF tensor # 0
       THEN /\ FreePtrs # {} /\ tensor = Min(FreePtrs)
            /\ made \in EngineTensors
       ELSE made = NoTensor
    /\ heap' = IF tensor # 0 THEN [heap EXCEPT ![tensor] = made] ELSE heap
    /\ raws' = [raws EXCEPT ![Min(FreeRaws)] = [live |-> TRUE, inner |-> tensor]]
    /\ last' = [Result("raw_tensor", <<>>, "ok") EXCEPT
                    !.tensor = tensor, !.out = Min(FreeRaws)]
    /\ UNCHANGED <<handles, cbufs, outside>>

\* impl Drop for RawTensor: Tensor_destroy(self.inner), whatever inner is
drop_raw(r) ==
    /\ raws[r].live
    /\ LET p == raws[r].inner IN
          /\ heap' = IF p # 0 THEN [heap EXCEPT ![p] = Tensor_destroy(heap[p])]
                     ELSE heap
          /\ last' = [Result("drop_raw", <<>>, "ok") EXCEPT
                          !.tensor = p, !.released = TRUE]
    /\ raws' = [raws EXCEPT ![r] = NoRaw]
    /\ UNCHANGED <<handles, cbufs, outside>>

\* to_concrete::<T>(self): ManuallyDrop::new(self) consumes the RawTensor
\* without its destructor, then Tensor::from_ptr(this.inner); the caller's
\* word is that the tensor is of T's location
to_concrete(r, T, H) ==
    /\ raws[r].live
    /\ T \in Descriptors
    /\ FreeSlots # {}
    /\ LET tensor == raws[r].inner IN
          /\ tensor # 0 => (heap[tensor].loc = "host") = TT_host(T)
          /\ IF tensor # 0
             THEN /\ handles' = [handles EXCEPT ![Min(FreeSlots)] =
                        [live |-> TRUE, tensor |-> tensor, T |-> T, H |-> H, src |-> 0]]
                  /\ last' = [Result("to_concrete", T, "ok") EXCEPT !.H = H,
                                  !.tensor = tensor, !.out = Min(FreeSlots)]
             ELSE /\ UNCHANGED handles
                  /\ last' = [Result("to_concrete", T, "panic") EXCEPT !.H = H]
    /\ raws' = [raws EXCEPT ![r] = NoRaw]
    /\ UNCHANGED <<heap, cbufs, outside>>

\* ---- a null pointer from the engine's allocator ------------------------------
\* the check a constructor makes of the pointer the engine returned:
\* debug_assert!(!tensor.is_null()) in new, borrowed and borrowed_mut, nothing
\* in clone
NullCheck(op) ==
    CASE op = "new" -> "debug_assert"
      [] op = "borrowed" -> "debug_assert"
      [] op = "borrowed_mut" -> "debug_assert"
      [] op = "clone" -> "none"

\* assert! is always compiled in, debug_assert! only with debug_assertions
CheckPasses(check, tensor, debug_assertions) ==
    CASE check = "assert" -> tensor # 0
      [] check = "debug_assert" -> (debug_assertions => tensor # 0)
      [] check = "none" -> TRUE

\* the constructor op when its Tensor_create* / Tensor_clone call returns null,
\* in a build with or without debug_assertions
NullFromEngine(op, T, H, debug_assertions) ==
    /\ FreeSlots # {}
    /\ LET tensor == 0 IN
       IF CheckPasses(NullCheck(op), tensor, debug_assertions)
       THEN /\ handles' = [handles EXCEPT ![Min(FreeSlots)] =
                  [live |-> TRUE, tensor |-> tensor, T |-> T, H |-> H, src |-> 0]]
            /\ last' = [Result(op, T, "ok") EXCEPT !.H = H, !.out = Min(FreeSlots)]
       ELSE /\ UNCHANGED handles
            /\ last' = [Result(op, T, "panic") EXCEPT !.H = H]
    /\ UNCHANGED <<heap, cbufs, raws, outside>>

new_null(T, H, debug_assertions) ==
    /\ OwnedTensorType(T)
    /\ NullFromEngine("new", T, H, debug_assertions)

clone_null(s, debug_assertions) ==
    /\ Live(s) /\ OwnedTensorType(handles[s].T)
    /\ NullFromEngine("clone", handles[s].T, handles[s].H, debug_assertions)

borrowed_null(T, H, b, debug_assertions) ==
    /\ T \in Descriptors /\ HostTensorType(T) /\ RefTensorType(T)
    /\ cbufs[b].st = "alive"
    /\ NullFromEngine("borrowed", T, H, debug_assertions)

borrowed_mut_null(T, H, b, debug_assertions) ==
    /\ T \in Descriptors /\ HostTensorType(T) /\ RefTensorType(T)
    /\ cbufs[b].st = "alive"
    /\ NullFromEngine("borrowed_mut", T, H, debug_assertions)

\* ---- AsTensorShape on its own (tensor.rs 470-562) ---------------------------
InitShapes ==
    /\ InitTensor
    /\ shape_io \in {[NoShapeCall EXCEPT !.input = s] : s \in ShapeSeqs}
    /\ cap_io = NoDescriptor
    /\ bench = NoBench

\* input.as_tensor_shape()
call_as_tensor_shape ==
    /\ shape_io.op = ""
    /\ shape_io' = [shape_io EXCEPT !.op = "as_tensor_shape",
                                    !.out = as_tensor_shape(shape_io.input)]
    /\ UNCHANGED <<heap, handles, cbufs, last, raws, cap_io, bench>>

\* shape[i]
call_index(i) ==
    /\ shape_io.op = "as_tensor_shape"
    /\ LET r == index(shape_io.out, i) IN
          shape_io' = [shape_io EXCEPT !.op = "index", !.index = i,
                                       !.res = r.res, !.elem = r.elem]
    /\ UNCHANGED <<heap, handles, cbufs, last, raws, cap_io, bench>>

\* (*shape).as_tensor_shape(): the visible entries, normalised again
call_renormalise ==
    /\ shape_io.op = "as_tensor_shape"
    /\ shape_io' = [shape_io EXCEPT !.op = "renormalise",
                                    !.again = as_tensor_shape(deref(shape_io.out))]
    /\ UNCHANGED <<heap, handles, cbufs, last, raws, cap_io, bench>>

\* shape.as_tensor_shape() on the TensorShape itself
call_shape_as_tensor_shape ==
    /\ shape_io.op = "as_tensor_shape"
    /\ shape_io' = [shape_io EXCEPT !.op = "identity",
                       !.again = TensorShape_as_tensor_shape(shape_io.out)]
    /\ UNCHANGED <<heap, handles, cbufs, last, raws, cap_io, bench>>

\* ---- capability descriptors on their own (tensor.rs 18-85, 662-681) --------
InitCaps ==
    /\ InitTensor
    /\ shape_io = NoShapeCall
    /\ cap_io \in {[NoDescriptor EXCEPT !.T = b] : b \in {<<"Host">>, <<"Device">>}}
    /\ bench = NoBench

\* Ref<'_, T>, RefMut<'_, T> or Dyn<T> around the descriptor built so far
wrap(w) ==
    /\ Len(cap_io.T) <= MaxNest
    /\ cap_io' = [T |-> <<w>> \o cap_io.T, is |-> NoAnswers, inner |-> cap_io.is]
    /\ UNCHANGED <<heap, handles, cbufs, last, raws, shape_io, bench>>

\* T::owned(), T::borrowed(), T::host(), T::device() and the marker traits
\* T implements
predicates ==
    /\ ~cap_io.is.asked
    /\ cap_io' = [cap_io EXCEPT !.is =
                     [asked |-> TRUE,
                      owned |-> TT_owned(cap_io.T),
                      borrowed |-> TT_borrowed(cap_io.T),
                      host |-> TT_host(cap_io.T),
                      device |-> TT_device(cap_io.T),
                      Owned |-> OwnedTensorType(cap_io.T),
                      Mutable |-> MutableTensorType(cap_io.T)]]
    /\ UNCHANGED <<heap, handles, cbufs, last, raws, shape_io, bench>>

\* ---- the benchmark tool's exec mode (tools/bencher/src/main.rs) ------------
ScheduleConfigItem_new(forward, power, precision, memory) ==
    [forward |-> forward, power |-> power, precision |-> precision,
     memory |-> memory]

\* Iterator::flatten followed by collect
RECURSIVE Flatten(_)
Flatten(ss) == IF Len(ss) = 0 THEN <<>> ELSE Head(ss) \o Flatten(Tail(ss))

\* an iteration that nests memory outermost and forward innermost
into_iter_memory_first(self) ==
    Flatten(Flatten(Flatten(
        [m \in 1..Len(self.memory) |->
          [pr \in 1..Len(self.precision) |->
            [p \in 1..Len(self.power) |->
              [f \in 1..Len(self.forward) |->
                 ScheduleConfigItem_new(self.forward[f], self.power[p],
                                        self.precision[pr], self.memory[m])]]]])))

\* impl IntoIterator for ScheduleConfigItems
into_iter(self) ==
    Flatten(Flatten(Flatten(
        [f \in 1..Len(self.forward) |->
          [p \in 1..Len(self.power) |->
            [pr \in 1..Len(self.precision) |->
              [m \in 1..Len(self.memory) |->
                 ScheduleConfigItem_new(self.forward[f], self.power[p],
                                        self.precision[pr], self.memory[m])]]]])))

combinations(self) ==
    Len(self.forward) * Len(self.power) * Len(self.precision) * Len(self.memory)

\* Path::file_name is None for a path that ends in ".."
ModelPaths == {"a.mnn", "b.mnn", ".."}
file_name_is_some(m) == m # ".."

\* how one child ends: the spawn fails, wait fails, the child exits with a
\* failure status (a crash included), it exits with success and prints
\* something that is not JSON, or it exits with success and prints its metrics
ChildFailures == {"not_spawned", "wait_failed", "exit_failure", "bad_json"}
ChildOutcomes == ChildFailures \cup {"exit_success"}

\* the bench command line exec_bench builds for one child
ChildArgs(model, sc) ==
    [model |-> model, memory |-> sc.memory, power |-> sc.power,
     precision |-> sc.precision, forward |-> sc.forward]

\* an exec_bench that hands back whatever the child printed
exec_bench_unchecked(model, sc, outcome) ==
    [ok |-> outcome \in {"exit_success", "exit_failure"},
     of |-> ChildArgs(model, sc)]

\* exec_bench: Err from spawn, wait, a failure status or the JSON reader,
\* otherwise Ok(metrics)
exec_bench(model, sc, outcome) ==
    [ok |-> outcome = "exit_success", of |-> ChildArgs(model, sc)]

Failed == {k \in 1..Len(bench.children) : bench.children[k].status \in ChildFailures}

ItemLists ==
    {[forward |-> f, power |-> <<"normal">>, precision |-> pr, memory |-> m] :
        f \in {<<"cpu">>, <<"cpu", "opencl">>},
        pr \in {<<"normal">>, <<"low", "high">>},
        m \in {<<"normal">>, <<"low", "high">>}}

InitBench ==
    /\ InitTensor
    /\ shape_io = NoShapeCall
    /\ cap_io = NoDescriptor
    /\ bench \in {[NoBench EXCEPT !.pc = "start", !.models = ms, !.sc_items = it] :
                    ms \in UNION {[1..n -> ModelPaths] : n \in 0..MaxModels},
                    it \in ItemLists}

\* exec_bench_all up to the iteration: std::env::current_exe().cc(BenchError)?
current_exe(found) ==
    /\ bench.pc = "start"
    /\ bench' = [bench EXCEPT !.pc = IF found THEN "run" ELSE "error"]
    /\ UNCHANGED <<heap, handles, cbufs, last, raws, shape_io, cap_io>>

\* the outer closure is entered for the next model: the progress bar's prefix
\* unwraps the file name, then sc_items.clone().into_iter() is set up
next_model ==
    /\ bench.pc = "run" /\ bench.todo = <<>> /\ bench.m < Len(bench.models)
    /\ IF file_name_is_some(bench.models[bench.m + 1])
       THEN bench' = [bench EXCEPT !.m = bench.m + 1,
                                   !.todo = into_iter(bench.sc_items)]
       ELSE bench' = [bench EXCEPT !.pc = "panic"]
    /\ UNCHANGED <<heap, handles, cbufs, last, raws, shape_io, cap_io>>

\* the inner closure: exec_bench(&self_exe, warmup, sc, m, &mp) for the next
\* combination, its result pushed onto the model's list
run_child(outcome) ==
    /\ bench.pc = "run" /\ bench.todo # <<>>
    /\ outcome \in ChildFailures => Cardinality(Failed) < MaxFailures
    /\ LET model == bench.models[bench.m]
           sc == Head(bench.todo)
       IN bench' = [bench EXCEPT
                      !.todo = Tail(bench.todo),
                      !.children = Append(bench.children,
                                          [args |-> ChildArgs(model, sc),
                                           status |-> outcome]),
                      !.result = Append(bench.result,
                                        exec_bench(model, sc, outcome))]
    /\ UNCHANGED <<heap, handles, cbufs, last, raws, shape_io, cap_io>>

\* the iteration is exhausted: Ok(result)
exec_bench_all_returns ==
    /\ bench.pc = "run" /\ bench.todo = <<>> /\ bench.m = Len(bench.models)
    /\ bench' = [bench EXCEPT !.pc = "done"]
    /\ UNCHANGED <<heap, handles, cbufs, last, raws, shape_io, cap_io>>

\* ---- one exec_bench call and its child (main.rs 297-334, 493-521) ----------
\* a child is what it writes to stdout and to stderr before it exits, and the
\* status it exits with; it would end if both pipes were drained
ChildPrograms ==
    [to_out : 0..(PipeCap + 1), to_err : 0..(PipeCap + 1),
     status : {"exit_success", "exit_failure"}]

InitExec ==
    /\ InitTensor
    /\ shape_io = NoShapeCall
    /\ cap_io = NoDescriptor
    /\ bench \in {[NoBench EXCEPT !.exec =
                        [NoExec EXCEPT !.pc = "spawn", !.to_out = c.to_out,
                                       !.to_err = c.to_err, !.status = c.status]] :
                    c \in ChildPrograms}

\* Command::new(exec)...stdout(piped).stderr(piped).spawn().cc(BenchError)?,
\* the two pipe ends taken, p_read(child_stderr) starting the reader thread
spawn(ok) ==
    /\ bench.exec.pc = "spawn"
    /\ bench' = [bench EXCEPT !.exec =
                    IF ok
                    THEN [bench.exec EXCEPT !.pc = "wait", !.child = "running",
                                            !.reader = "reading"]
                    ELSE [bench.exec EXCEPT !.pc = "returned_err"]]
    /\ UNCHANGED <<heap, handles, cbufs, last, raws, shape_io, cap_io>>

\* the child writes a chunk to its stdout: it blocks while the pipe is full
child_write_stdout ==
    /\ bench.exec.child = "running"
    /\ bench.exec.to_out > 0 /\ bench.exec.out < PipeCap
    /\ bench' = [bench EXCEPT !.exec.to_out = bench.exec.to_out - 1,
                              !.exec.out = bench.exec.out + 1]
    /\ UNCHANGED <<heap, handles, cbufs, last, raws, shape_io, cap_io>>

\* the child writes a line to its stderr: it blocks while the pipe is full
child_write_stderr ==
    /\ bench.exec.child = "running"
    /\ bench.exec.to_err > 0 /\ bench.exec.err < PipeCap
    /\ bench' = [bench EXCEPT !.exec.to_err = bench.exec.to_err - 1,
                              !.exec.err = bench.exec.err + 1]
    /\ UNCHANGED <<heap, handles, cbufs, last, raws, shape_io, cap_io>>

\* the child has written everything and exits; its pipe ends close
child_exit ==
    /\ bench.exec.child = "running"
    /\ bench.exec.to_out = 0 /\ bench.exec.to_err = 0
    /\ bench' = [bench EXCEPT !.exec.child = "exited"]
    /\ UNCHANGED <<heap, handles, cbufs, last, raws, shape_io, cap_io>>

\* child.wait() returns once the child has exited: Err on a failure status,
\* otherwise progress.finish_and_clear() and on to the JSON reader
child_wait ==
    /\ bench.exec.pc = "wait" /\ bench.exec.child = "exited"
    /\ bench' = [bench EXCEPT !.exec =
                    IF bench.exec.status = "exit_success"
                    THEN [bench.exec EXCEPT !.pc = "read", !.finished = TRUE]
                    ELSE [bench.exec EXCEPT !.pc = "returned_err"]]
    /\ UNCHANGED <<heap, handles, cbufs, last, raws, shape_io, cap_io>>

\* serde_json::from_reader(child_stdout): reads to the end of the pipe, then
\* Ok(metrics) or the parse error
from_reader(valid) ==
    /\ bench.exec.pc = "read"
    /\ IF bench.exec.out > 0
       THEN /\ valid
            /\ bench' = [bench EXCEPT !.exec.out = bench.exec.out - 1,
                                      !.exec.got = bench.exec.got + 1]
       ELSE bench' = [bench EXCEPT !.exec.pc =
                         IF valid THEN "returned_ok" ELSE "returned_err"]
    /\ UNCHANGED <<heap, handles, cbufs, last, raws, shape_io, cap_io>>

\* the reader thread of p_read: read_line gives a line (shown, then the loop
\* breaks if the bar is finished) or 0 at the end of the closed pipe
read_line ==
    /\ bench.exec.reader = "reading"
    /\ IF bench.exec.err > 0
       THEN bench' = [bench EXCEPT !.exec.err = bench.exec.err - 1,
                                  !.exec.reader = IF bench.exec.finished
                                                  THEN "done" ELSE "reading"]
       ELSE /\ bench.exec.child = "exited"
            /\ bench' = [bench EXCEPT !.exec.reader = "done"]
    /\ UNCHANGED <<heap, handles, cbufs, last, raws, shape_io, cap_io>>

\* ---- specifications ----------------------------------------------------------
Next ==
    \/ \E T \in Descriptors, H \in ClientTypes, s \in ShapeInputs,
          dm \in DimensionType : new(T, H, s, dm)
    \/ \E s \in Handles : clone(s)
    \/ \E s \in Handles : as_ref(s)
    \/ \E h \in Handles : drop(h)
    \/ \E T \in Descriptors, H \in ClientTypes, s \in ShapeInputs, b \in Bufs,
          moved \in BOOLEAN : borrowed(T, H, s, b, moved)
    \/ \E T \in Descriptors, H \in ClientTypes, s \in ShapeInputs, b \in Bufs,
          moved \in BOOLEAN : borrowed_mut(T, H, s, b, moved)
    \/ \E b \in Bufs : drop_buffer(b)
    \/ \E h \in Handles : try_host(h)
    \/ \E h \in Handles : host(h)
    \/ \E h \in Handles, write \in BOOLEAN, w \in Values : try_host_mut(h, write, w)
    \/ \E h \in Handles, write \in BOOLEAN, w \in Values : host_mut(h, write, w)
    \/ \E h \in Handles, v \in Values, ret \in EngineCodes : fill(h, v, ret)
    \/ \E h, s \in Handles, ret \in EngineCodes : copy_from_host_tensor(h, s, ret)
    \/ \E h, d \in Handles, ret \in EngineCodes : copy_to_host_tensor(h, d, ret)
    \/ \E h \in Handles, copy_data \in BOOLEAN, ret \in EngineCodes :
          create_host_tensor_from_device(h, copy_data, ret)

Spec == Init /\ [][Next]_vars

\* the unsafe adoption of engine pointers, and what the client then does with
\* the adopted handles
NextUnsafe ==
    \/ \E T \in Descriptors, H \in ElemTypes, p \in Ptrs \cup {0},
          made \in EngineTensors \cup {NoTensor} : from_ptr(T, H, p, made)
    \/ \E h \in Handles : drop(h)
    \/ \E h \in Handles : try_host(h)
    \/ \E h \in Handles : host(h)
    \/ \E h \in Handles, write \in BOOLEAN, w \in Values : try_host_mut(h, write, w)
    \/ \E h \in Handles, write \in BOOLEAN, w \in Values : host_mut(h, write, w)
    \/ \E h \in Handles, v \in Values, ret \in EngineCodes : fill(h, v, ret)

SpecUnsafe == Init /\ [][NextUnsafe]_vars

\* making, filling, reading and releasing host tensors on the shapes of the
\* crate's own tests
NextData ==
    \/ \E T \in Descriptors, H \in ClientTypes, s \in DataShapes,
          dm \in DimensionType : new(T, H, s, dm)
    \/ \E h \in Handles : drop(h)
    \/ \E T \in Descriptors, H \in ClientTypes, s \in DataShapes, b \in Bufs,
          moved \in BOOLEAN : borrowed(T, H, s, b, moved)
    \/ \E T \in Descriptors, H \in ClientTypes, s \in DataShapes, b \in Bufs,
          moved \in BOOLEAN : borrowed_mut(T, H, s, b, moved)
    \/ \E h \in Handles : host(h)
    \/ \E h \in Handles, w \in Values : host_mut(h, TRUE, w)
    \/ \E h \in Handles, v \in Values, ret \in EngineCodes : fill(h, v, ret)

SpecData == Init /\ [][NextData]_vars

\* RawTensor values over tensors of the engine, their promotion to typed
\* handles, and the drops of both
NextRaw ==
    \/ \E p \in Ptrs, made \in EngineTensors : raw_tensor(p, made)
    \/ \E r \in Raws : drop_raw(r)
    \/ \E r \in Raws, T \in Descriptors, H \in ElemTypes : to_concrete(r, T, H)
    \/ \E h \in Handles : drop(h)

SpecRaw == Init /\ [][NextRaw]_vars

\* the handles whose pointer is not null
NonNull == {h \in Handles : Live(h) /\ handles[h].tensor # 0}

\* the constructors of handles, with the engine handing out tensors or null
NextNull ==
    \/ \E T \in Descriptors, H \in ClientTypes, p \in Ptrs \cup {0},
          made \in EngineTensors \cup {NoTensor} : from_ptr(T, H, p, made)
    \/ \E p \in Ptrs \cup {0}, made \in EngineTensors \cup {NoTensor} :
          raw_tensor(p, made)
    \/ \E r \in Raws, T \in Descriptors, H \in ClientTypes : to_concrete(r, T, H)
    \/ \E T \in Descriptors, H \in ClientTypes, s \in ShapeInputs,
          dm \in DimensionType : new(T, H, s, dm)
    \/ \E T \in Descriptors, H \in ClientTypes, dbg \in BOOLEAN : new_null(T, H, dbg)
    \/ \E s \in NonNull : clone(s)
    \/ \E s \in Handles, dbg \in BOOLEAN : clone_null(s, dbg)
    \/ \E T \in Descriptors, H \in ClientTypes, b \in Bufs, dbg \in BOOLEAN :
          borrowed_null(T, H, b, dbg)
    \/ \E T \in Descriptors, H \in ClientTypes, b \in Bufs, dbg \in BOOLEAN :
          borrowed_mut_null(T, H, b, dbg)

SpecNull == Init /\ [][NextNull]_vars

\* one exec_bench call: the parent, its child and the stderr reader thread,
\* each of which the operating system runs whenever it can take a step
ParentStep == (\E ok \in BOOLEAN : spawn(ok)) \/ child_wait \/ (\E valid \in BOOLEAN : from_reader(valid))

ChildStep == child_write_stdout \/ child_write_stderr \/ child_exit

NextExec ==
    \/ \E ok \in BOOLEAN : spawn(ok)
    \/ child_write_stdout
    \/ child_write_stderr
    \/ child_exit
    \/ child_wait
    \/ \E valid \in BOOLEAN : from_reader(valid)
    \/ read_line

SpecExec ==
    /\ InitExec /\ [][NextExec]_vars
    /\ WF_vars(ParentStep) /\ WF_vars(ChildStep) /\ WF_vars(read_line)

\* the safe operations with handles of both element types side by side
NextTyped ==
    \/ \E T \in Descriptors, H \in ElemTypes, s \in ShapeInputs,
          dm \in DimensionType : new(T, H, s, dm)
    \/ \E s \in Handles : clone(s)
    \/ \E s \in Handles : as_ref(s)
    \/ \E h \in Handles : drop(h)
    \/ \E T \in Descriptors, H \in ElemTypes, s \in ShapeInputs, b \in Bufs,
          moved \in BOOLEAN : borrowed(T, H, s, b, moved)
    \/ \E T \in Descriptors, H \in ElemTypes, s \in ShapeInputs, b \in Bufs,
          moved \in BOOLEAN : borrowed_mut(T, H, s, b, moved)
    \/ \E b \in Bufs : drop_buffer(b)
    \/ \E h \in Handles : try_host(h)
    \/ \E h \in Handles : host(h)
    \/ \E h \in Handles : try_host_mut(h, FALSE, 0)
    \/ \E h \in Handles : host_mut(h, FALSE, 0)
    \/ \E h \in Handles, v \in Values, ret \in EngineCodes : fill(h, v, ret)
    \/ \E h, s \in Handles, ret \in EngineCodes : copy_from_host_tensor(h, s, ret)
    \/ \E h, d \in Handles, ret \in EngineCodes : copy_to_host_tensor(h, d, ret)
    \/ \E h \in Handles, copy_data \in BOOLEAN, ret \in EngineCodes :
          create_host_tensor_from_device(h, copy_data, ret)

SpecTyped == Init /\ [][NextTyped]_vars

\* every sequence of up to MaxLen extents, normalised, indexed and normalised
\* again
NextShapes ==
    \/ call_as_tensor_shape
    \/ \E i \in 0..4 : call_index(i)
    \/ call_renormalise
    \/ call_shape_as_tensor_shape

SpecShapes == InitShapes /\ [][NextShapes]_vars

\* every descriptor of up to MaxNest wrappers around Host or Device
NextCaps ==
    \/ \E w \in {"Ref", "RefMut", "Dyn"} : wrap(w)
    \/ predicates

SpecCaps == InitCaps /\ [][NextCaps]_vars

\* one run of bench --exec over up to MaxModels models
NextBench ==
    \/ \E found \in BOOLEAN : current_exe(found)
    \/ next_model
    \/ \E outcome \in ChildOutcomes : run_child(outcome)
    \/ exec_bench_all_returns

SpecBench == InitBench /\ [][NextBench]_vars

\* ---- properties ---------------------------------------------------------------
Owned == {<<"Host">>, <<"Device">>}

OwnersOf(p) == {h \in Handles : Live(h) /\ handles[h].tensor = p /\ handles[h].T \in Owned}

\* C1: dropping a handle destroys its foreign tensor if and only if the
\* descriptor is Host<H> or Device<H>; over create, as_ref and drop a tensor
\* held by an Owned handle stays alive until that handle is dropped, is then
\* destroyed exactly once, and the drop of a Ref alias leaves it alive.
C1_DropReleasesIffOwned ==
    /\ last.op = "drop" =>
          IF last.T \in Owned
          THEN /\ last.released
               /\ heap[last.tensor].st = "destroyed"
               /\ heap[last.tensor].destroys = 1
          ELSE /\ ~last.released
               /\ heap[last.tensor].st = "live"
               /\ heap[last.tensor].destroys = 0
    /\ \A p \in Ptrs : heap[p].destroys <= 1
    /\ \A h \in Handles :
          Live(h) /\ handles[h].T \in Owned => heap[handles[h].tensor].st = "live"
    /\ \A p \in Ptrs :
          heap[p].st = "live" /\ heap[p].ext = 0 => OwnersOf(p) # {}

\* the last Owned handle has just been dropped and its tensor released
C1_Witness ==
    /\ last.op = "drop" /\ last.T = <<"Host">>
    /\ heap[last.tensor].destroys = 1
    /\ \A h \in Handles : ~Live(h)

\* C2: through the safe operations every foreign tensor has at most one live
\* Owned handle; as_ref returns a non-owning alias of the same pointer and
\* clone an Owned handle over another, newly created tensor.
C2_OneOwnerPerBuffer ==
    /\ \A p \in Ptrs : Cardinality(OwnersOf(p)) <= 1
    /\ last.op = "as_ref" =>
          /\ handles[last.out].tensor = last.tensor
          /\ handles[last.out].T \notin Owned
    /\ last.op = "clone" =>
          /\ handles[last.out].tensor # last.tensor
          /\ handles[last.out].tensor = last.newp
          /\ handles[last.out].T \in Owned
          /\ OwnersOf(last.tensor) # {}

\* a clone and its original are both alive
C2_Witness ==
    /\ last.op = "clone"
    /\ Cardinality({p \in Ptrs : OwnersOf(p) # {}}) = 2

Borrowing(h) == Live(h) /\ handles[h].T \notin Owned

\* the caller's buffer behind handle h, 0 when the engine owns the memory
BufferOf(h) == heap[handles[h].tensor].ext

HostReads == {"try_host", "host", "try_host_mut", "host_mut"}

\* C3: a borrowed handle never outlives its source: while a handle made by
\* as_ref lives its owner lives, while a handle made by borrowed or
\* borrowed_mut lives the caller's buffer lives, and no host view is taken
\* from freed memory.
C3_NoBorrowOutlivesSource ==
    /\ \A h \in Handles :
          Borrowing(h) /\ handles[h].src # 0 =>
             /\ Live(handles[h].src)
             /\ handles[handles[h].src].tensor = handles[h].tensor
             /\ heap[handles[h].tensor].st = "live"
    /\ \A h \in Handles :
          Borrowing(h) /\ BufferOf(h) # 0 => cbufs[BufferOf(h)].st = "alive"
    /\ last.op \in HostReads /\ heap[last.tensor].ext # 0 =>
          cbufs[heap[last.tensor].ext].st = "alive"

\* the descriptors that grant write access: Owned or RefMut<..>
GrantsWrite(T) == T \in Owned \/ Head(T) = "RefMut"

Writers == {"try_host_mut", "host_mut", "fill", "copy_from_host_tensor"}

\* C4: no write of the buffer's contents (try_host_mut, host_mut, fill,
\* copy_from_host_tensor into the handle) happens through a handle whose
\* descriptor is an immutable borrow Ref<..>.
C4_NoWriteThroughRef ==
    last.op \in Writers /\ last.wrote => GrantsWrite(last.T)

\* the memory region a handle reaches
Region(h) ==
    IF BufferOf(h) # 0 THEN <<"buffer", BufferOf(h)>>
    ELSE <<"tensor", handles[h].tensor>>

\* handle h can be written through now: a writable descriptor that no
\* as_ref alias has frozen
MutableNow(h) == Live(h) /\ GrantsWrite(handles[h].T) /\ ~Frozen(h)

\* C5: at most one live handle grants mutable access to a region of memory:
\* no two writable handles over one caller buffer or tensor, and no RefMut
\* handle comes out of a buffer supplied through borrowed.
C5_OneMutableAlias ==
    /\ \A h, k \in Handles :
          h # k /\ MutableNow(h) /\ MutableNow(k) => Region(h) # Region(k)
    /\ last.op = "borrowed" => ~GrantsWrite(last.T)

\* the runtime tag of the tensor the last operation ran on agrees with the
\* handle's compile-time element type
TagAgrees == heap[last.tensor].tag = halide_type_of(last.H)

\* C6: try_host and try_host_mut compare the runtime tag with H first: on a
\* mismatch they return HalideTypeMismatch carrying H's name, with no slice
\* and nothing written; on agreement they return a view as long as the
\* tensor's element count.
C6_TryHostChecksType ==
    last.op \in {"try_host", "try_host_mut"} =>
       IF TagAgrees
       THEN /\ last.res = "ok"
            /\ Len(last.view) = Product(heap[last.tensor].dims)
       ELSE /\ last.res = "err"
            /\ last.err = [kind |-> "HalideTypeMismatch", got |-> last.H, code |-> 0]
            /\ last.view = <<>>
            /\ ~last.wrote

\* try_host has refused a tensor whose tag is not H
C6_Witness ==
    /\ last.op = "try_host" /\ last.res = "err"
    /\ last.H = "f32" /\ heap[last.tensor].tag = halide_type_of("i32")

Copies == {"copy_from_host_tensor", "copy_to_host_tensor"}

\* C7: copy_from_host_tensor and copy_to_host_tensor call the engine's copy
\* once; they return TensorCopyFailed(code) with the engine's status code
\* exactly when the engine reports non-success (status 0, nothing copied) and
\* success exactly when it reports success.
C7_CopyStatus ==
    last.op \in Copies =>
       /\ last.tries = 1
       /\ last.res \in {"ok", "err"}
       /\ last.res = "err" <=> last.ret = 0
       /\ last.res = "err" <=> ~last.wrote
       /\ last.res = "err" =>
             last.err = [kind |-> "TensorCopyFailed", got |-> "", code |-> last.ret]
       /\ last.res = "ok" => last.err = NoError

\* the engine has refused a device-to-host copy
C7_Witness ==
    /\ last.op = "copy_to_host_tensor" /\ last.res = "err"
    /\ last.T = <<"Device">> /\ last.ret = 0

\* C8: host() and host_mut() abort exactly when try_host / try_host_mut would
\* return an error and otherwise return the view; fill on a host handle
\* aborts on a tag mismatch before writing anything; fill on a device handle
\* aborts when the staged copy_from_host_tensor fails.
C8_ConvenienceAborts ==
    /\ [](/\ last.op \in {"host", "host_mut"} =>
                /\ last.res = (IF TagAgrees THEN "ok" ELSE "panic")
                /\ last.res = "ok" =>
                      Len(last.view) = Product(heap[last.tensor].dims)
                /\ last.res = "panic" => last.view = <<>> /\ ~last.wrote
          /\ last.op = "host" /\ last.res = "ok" =>
                last.view \in Views(Mem(heap, cbufs, last.tensor))
          /\ last.op = "fill" /\ TT_host(last.T) =>
                last.res = (IF TagAgrees THEN "ok" ELSE "panic")
          /\ last.op = "fill" /\ ~TT_host(last.T) /\ last.tries = 1 =>
                last.res = (IF last.ret = 0 THEN "panic" ELSE "ok")
          /\ last.op = "fill" /\ last.res = "panic" => ~last.wrote)
    /\ [][last'.op = "fill" /\ last'.res = "panic" =>
             heap'[last'.tensor] = heap[last'.tensor] /\ cbufs' = cbufs]_vars

\* host() has aborted on a tensor whose tag is not H
C8_Witness ==
    /\ last.op = "host" /\ last.res = "panic"
    /\ heap[last.tensor].tag # halide_type_of(last.H)

C10_RequestedLayout ==
    /\ last.op = "new" =>
          from_mnn_sys(Tensor_getDimensionType(heap[last.newp])) = last.dm_type
    /\ last.op = "create_host_tensor_from_device" /\ last.res = "ok" =>
          /\ handles[last.out].T = <<"Host">>
          /\ heap[last.newp].dims = heap[last.tensor].dims
          /\ heap[last.newp].dm = heap[last.tensor].dm

\* n elements, each v
FilledWith(n, v) == [i \in 1..n |-> v]

\* C11: after fill(v) on an owned host tensor, host() has as many elements as
\* the tensor (6 for shape [1, 2, 3]) and each of them is v, whatever the
\* tensor held before: v is all that a read of its memory can return, and the
\* host() that follows returns it.
C11_FillThenHost ==
    /\ [](last.op = "fill" /\ last.T = <<"Host">> /\ last.res = "ok" =>
             Views(Mem(heap, cbufs, last.tensor)) =
                {FilledWith(Product(heap[last.tensor].dims), last.value)})
    /\ [][(/\ last.op = "fill" /\ last.T = <<"Host">> /\ last.res = "ok"
           /\ last'.op = "host" /\ last'.tensor = last.tensor)
          => /\ last'.res = "ok"
             /\ Len(last'.view) = Product(heap[last.tensor].dims)
             /\ \A i \in 1..Len(last'.view) : last'.view[i] = last.value]_vars

\* an owned host tensor of shape [1, 2, 3] has just been filled with 1
C11_Witness ==
    /\ last.op = "fill" /\ last.T = <<"Host">> /\ last.res = "ok"
    /\ heap[last.tensor].dims = <<1, 2, 3>>
    /\ last.value = 1

\* what host() can return on a host tensor of these dims made by new and
\* filled directly with v
DirectlyFilled(dims, H, v) ==
    LET hp == [p \in Ptrs |-> IF p = 1 THEN NewTensor(<<"Host">>, H, dims, "Caffe")
                              ELSE NoTensor]
    IN UNION {Views(Mem(o.m.heap, o.m.cbufs, 1)) : o \in FillHost(hp, cbufs, 1, H, v)}

\* C12: fill(v) on a device tensor stages a temporary owned host tensor of the
\* device tensor's shape and layout and releases it before it returns; and
\* after fill(v) followed by create_host_tensor_from_device(true) the host()
\* of the new host tensor is that of a host tensor of the same shape filled
\* directly with v.
C12_DeviceRoundTrip ==
    /\ [](last.op = "fill" /\ TT_device(last.T) =>
             /\ last.staged.loc = "host"
             /\ last.staged.dims = heap[last.tensor].dims
             /\ last.staged.dm = heap[last.tensor].dm
             /\ heap[last.newp].st = "destroyed"
             /\ heap[last.newp].destroys = 1
             /\ \A h \in Handles : Live(h) => handles[h].tensor # last.newp)
    /\ [][(/\ last.op = "fill" /\ TT_device(last.T) /\ last.res = "ok"
           /\ last'.op = "create_host_tensor_from_device"
           /\ last'.tensor = last.tensor
           /\ last'.copy_data /\ last'.res = "ok")
          => Views(Mem(heap', cbufs', last'.newp)) =
                DirectlyFilled(heap[last.tensor].dims, last.H, last.value)]_vars

\* C13: a handle built with borrowed(shape, D) aliases D without copying:
\* what host() can return on it is D, element for element, and so is what the
\* host() that follows returns; and after borrowed_mut(shape, D) followed by
\* host_mut().fill(v) the caller's buffer D still exists and every element of
\* it is v.
C13_BorrowedAliasesBuffer ==
    /\ [][last'.op = "borrowed" =>
             Views(Mem(heap', cbufs', last'.newp)) = {cbufs[last'.input].data}]_vars
    /\ [][(last.op = "borrowed" /\ last'.op = "host" /\ last'.tensor = last.newp)
          => last'.res = "ok" /\ last'.view = cbufs[last.input].data]_vars
    /\ [][(/\ last.op = "borrowed_mut"
           /\ last'.op = "host_mut" /\ last'.tensor = last.newp /\ last'.wrote)
          => cbufs'[last.input] =
                [st |-> "alive",
                 data |-> FilledWith(Len(CallerData), last'.value)]]_vars

\* the operations that write through a host view
HostViewWrites == {"try_host_mut", "host_mut", "fill"}

\* C14: clone makes a new, separately owned tensor holding a copy of the
\* data; a write through the host view of an owned handle (the clone or the
\* original) changes no other tensor; and the drop of an owned handle releases
\* its own tensor once and no other, so that clone and original release two
\* distinct tensors, each exactly once, in either order.
C14_CloneIsIndependent ==
    /\ [](last.op = "clone" =>
             /\ last.newp # last.tensor
             /\ handles[last.out].tensor = last.newp
             /\ handles[last.out].T = last.T /\ last.T \in Owned
             /\ OwnersOf(last.tensor) # {} /\ OwnersOf(last.newp) = {last.out}
             /\ heap[last.newp].st = "live" /\ heap[last.newp].ext = 0
             /\ heap[last.tensor].st = "live"
             /\ heap[last.newp].data = heap[last.tensor].data
             /\ heap[last.newp].dims = heap[last.tensor].dims
             /\ heap[last.newp].tag = heap[last.tensor].tag)
    /\ [][(last'.op \in HostViewWrites /\ last'.wrote /\ last'.T = <<"Host">>)
          => /\ \A q \in Ptrs \ {last'.tensor} : heap'[q] = heap[q]
             /\ cbufs' = cbufs]_vars
    /\ [](\A p \in Ptrs : heap[p].destroys <= 1)
    /\ [][(last'.op = "drop" /\ last'.T \in Owned)
          => /\ heap[last'.tensor].st = "live"
             /\ heap'[last'.tensor].st = "destroyed"
             /\ heap'[last'.tensor].destroys = 1
             /\ \A q \in Ptrs \ {last'.tensor} : heap'[q] = heap[q]]_vars

\* a host tensor holding written data has just been cloned
C14_Witness ==
    /\ last.op = "clone" /\ last.T = <<"Host">>
    /\ heap[last.tensor].data = <<1, 1>>
    /\ heap[last.newp].data = <<1, 1>>
    /\ last.newp # last.tensor

\* some RawTensor or owning handle is there to release tensor p
HeldBy(p) ==
    \/ \E r \in Raws : raws[r].live /\ raws[r].inner = p
    \/ \E h \in Handles : Live(h) /\ handles[h].tensor = p /\ TT_owned(handles[h].T)

\* C15: a dropped RawTensor releases its pointer exactly once; to_concrete
\* consumes the RawTensor without releasing and returns an Owned handle over
\* the same pointer, whatever capability the caller chooses; so the tensor is
\* released by the drop of that handle, never twice, and no tensor is left
\* alive with nothing to release it.
C15_RawReleasedOnce ==
    /\ [](\A p \in Ptrs : heap[p].destroys <= 1)
    /\ [](last.op = "drop_raw" =>
             heap[last.tensor].st = "destroyed" /\ heap[last.tensor].destroys = 1)
    /\ [](last.op = "to_concrete" /\ last.res = "ok" =>
             /\ heap[last.tensor].st = "live" /\ heap[last.tensor].destroys = 0
             /\ handles[last.out].tensor = last.tensor
             /\ TT_owned(handles[last.out].T)
             /\ \A r \in Raws : raws[r].live => raws[r].inner # last.tensor)
    /\ [](\A p \in Ptrs : heap[p].st = "live" => HeldBy(p))
    /\ [][last'.op = "drop" =>
             /\ heap'[last'.tensor].st = "destroyed"
             /\ heap'[last'.tensor].destroys = 1]_vars

Constructors == {"new", "clone", "borrowed", "borrowed_mut", "from_ptr", "to_concrete"}

\* C16: no live handle wraps a null pointer: from_ptr, to_concrete, new,
\* borrowed, borrowed_mut and clone abort rather than return a handle around
\* a null pointer.
C16_NoNullHandle ==
    /\ \A h \in Handles : Live(h) => handles[h].tensor # 0
    /\ last.op \in Constructors /\ last.res = "ok" => handles[last.out].tensor # 0

MinOf(a, b) == IF a < b THEN a ELSE b

\* C17: for an input sequence of length L, as_tensor_shape returns four
\* storage slots and size = min(L, 4); the visible entries are the first
\* min(L, 4) entries of the input in order (longer inputs are cut, with no
\* error); for L < 4 the slots past size hold 1 and are not visible: an index
\* at or past size fails, an index below size gives the input's entry.
C17_ShapeNormalisation ==
    LET s == shape_io.input
        ts == shape_io.out
        n == MinOf(Len(s), 4)
    IN /\ shape_io.op # "" =>
             /\ ts.size = n
             /\ Len(ts.shape) = 4
             /\ deref(ts) = SubSeq(s, 1, n)
             /\ Len(deref(ts)) = n
             /\ \A i \in 1..n : ts.shape[i] = s[i]
             /\ \A i \in (n + 1)..4 : ts.shape[i] = 1
       /\ shape_io.op = "index" =>
             IF shape_io.index < n
             THEN shape_io.res = "ok" /\ shape_io.elem = s[shape_io.index + 1]
             ELSE shape_io.res = "panic"

\* a sequence of five extents has been cut to its first four
C17_Witness ==
    /\ shape_io.op = "as_tensor_shape"
    /\ Len(shape_io.input) = 5 /\ shape_io.input[5] = 3
    /\ shape_io.out.size = 4

\* C18: for every descriptor built from Host, Device, Ref, RefMut and Dyn:
\* borrowed() = ~owned() and device() = ~host(); Host and Device are owned; a
\* descriptor wrapped in Ref or RefMut is not owned and its host() is that of
\* the innermost base at any depth; Dyn<T> answers the four predicates as T
\* does; every owned descriptor and every RefMut<T> is Mutable, no Ref<T> is.
C18_CapabilityComposition ==
    LET T == cap_io.T
        a == cap_io.is
        t == cap_io.inner
    IN a.asked =>
         /\ a.borrowed = ~a.owned
         /\ a.device = ~a.host
         /\ Len(T) = 1 => a.owned
         /\ Head(T) \in {"Ref", "RefMut"} =>
               /\ ~a.owned
               /\ a.host = (T[Len(T)] = "Host")
         /\ Head(T) = "Dyn" /\ t.asked =>
               /\ a.owned = t.owned /\ a.borrowed = t.borrowed
               /\ a.host = t.host /\ a.device = t.device
         /\ a.owned => a.Mutable
         /\ Head(T) = "RefMut" => a.Mutable
         /\ Head(T) = "Ref" => ~a.Mutable

\* the k-th (model, combination) pair of the iteration: models outermost, then
\* forward, power, precision, memory
ExpectedPair(k) ==
    LET it == bench.sc_items
        P == Len(it.power)
        R == Len(it.precision)
        M == Len(it.memory)
        C == Len(it.forward) * P * R * M
        j == (k - 1) % C
    IN [model |-> bench.models[((k - 1) \div C) + 1],
        forward |-> it.forward[(j \div (P * R * M)) + 1],
        power |-> it.power[((j \div (R * M)) % P) + 1],
        precision |-> it.precision[((j \div M) % R) + 1],
        memory |-> it.memory[(j % M) + 1]]

\* C19: in exec mode the k-th result entry belongs to the k-th (model,
\* combination) pair of the iteration and comes from a child of its own,
\* started for that one model and that one combination; the entry is an error
\* exactly when its own child did not deliver (a failure exit status
\* included), whatever the other children did; no child's outcome stops the
\* run, and the list that exec_bench_all returns has models x combinations
\* entries.
C19_ExecIsolatesChildren ==
    /\ Len(bench.children) = Len(bench.result)
    /\ \A k \in 1..Len(bench.result) :
          /\ bench.children[k].args = ExpectedPair(k)
          /\ bench.result[k].of = ExpectedPair(k)
          /\ bench.result[k].ok = (bench.children[k].status = "exit_success")
          /\ bench.children[k].status = "exit_failure" => ~bench.result[k].ok
    /\ bench.pc = "done" =>
          Len(bench.result) = Len(bench.models) * combinations(bench.sc_items)
    /\ bench.pc = "panic" => ~file_name_is_some(bench.models[bench.m + 1])
    /\ bench.pc = "error" => bench.children = <<>>

\* a finished run over two models and eight combinations whose first child
\* exited with a failure status and whose last child delivered
C19_Witness ==
    /\ bench.pc = "done"
    /\ Len(bench.models) = 2 /\ Len(bench.result) = 16
    /\ bench.children[1].status = "exit_failure" /\ ~bench.result[1].ok
    /\ bench.result[2].ok /\ bench.result[16].ok

\* C20: normalising a TensorShape returns it unchanged, and normalising the
\* visible entries of as_tensor_shape(s) gives as_tensor_shape(s) again, in
\* the four storage slots and in size, for every input sequence s.
C20_NormalisationIdempotent ==
    /\ shape_io.op = "identity" =>
          /\ shape_io.again.shape = shape_io.out.shape
          /\ shape_io.again.size = shape_io.out.size
    /\ shape_io.op = "renormalise" =>
          /\ shape_io.again.size = shape_io.out.size
          /\ Len(shape_io.again.shape) = 4
          /\ \A i \in 1..4 : shape_io.again.shape[i] = shape_io.out.shape[i]
          /\ shape_io.again = as_tensor_shape(shape_io.input)

\* the two visible entries of a normalised shape have been normalised again
C20_Witness ==
    /\ shape_io.op = "renormalise"
    /\ Len(shape_io.input) = 2
    /\ shape_io.again.size = 2 /\ shape_io.again.shape = <<3, -1, 1, 1>>

TypeChecked == {"try_host", "try_host_mut", "host", "host_mut"}

\* C21: with handles made by new, clone, as_ref, borrowed, borrowed_mut and
\* create_host_tensor_from_device only, the runtime tag of every live handle's
\* tensor is the tag of the handle's element type H in every reachable state;
\* try_host and try_host_mut never return HalideTypeMismatch, host and host_mut
\* never abort, and a fill aborts on a failed copy only, never on its type
\* check.
C21_SafeHandlesAgree ==
    /\ \A h \in Handles :
          Live(h) => heap[handles[h].tensor].tag = halide_type_of(handles[h].H)
    /\ last.op \in TypeChecked =>
          /\ last.res = "ok"
          /\ last.err.kind # "HalideTypeMismatch"
    /\ last.op = "fill" /\ last.res = "panic" =>
          /\ TT_device(last.T)
          /\ last.tries = 1 /\ ~EngineSuccess(last.ret)
          /\ last.staged.tag = halide_type_of(last.H)

\* try_host has handed out a view of an i32 tensor while an f32 handle is alive
\* next to it
C21_Witness ==
    /\ last.op = "try_host" /\ last.res = "ok" /\ last.H = "i32"
    /\ heap[last.tensor].tag = halide_type_of("i32")
    /\ \E h \in Handles : Live(h) /\ handles[h].H = "f32"

AllDropped ==
    /\ \A h \in Handles : ~Live(h)
    /\ \A r \in Raws : ~raws[r].live

\* C22: once every Tensor and RawTensor has been dropped, every tensor object
\* the engine made for new, clone, borrowed or borrowed_mut has been destroyed
\* exactly once; and the drop of a handle that borrowed or borrowed_mut
\* returned destroys, once, the tensor object made to wrap the caller's
\* memory.
C22_NoTensorLeaks ==
    /\ [](AllDropped =>
            \A p \in Ptrs : heap[p].st # "unalloc" =>
                /\ heap[p].st = "destroyed"
                /\ heap[p].destroys = 1)
    /\ [][\A h \in Handles :
            (/\ Live(h) /\ ~handles'[h].live
             /\ RefTensorType(handles[h].T) /\ handles[h].src = 0)
            => /\ heap[handles[h].tensor].st = "live"
               /\ heap'[handles[h].tensor].st = "destroyed"
               /\ heap'[handles[h].tensor].destroys = 1]_vars

Returned == bench.exec.pc \in {"returned_ok", "returned_err"}

\* C23: exec_bench eventually returns, with metrics or with an error, for
\* every child that would end if its pipes were drained, a child that fills
\* its stdout pipe included; and once the child has exited the stderr reader
\* thread ends.
C23_ExecBenchReturns ==
    /\ <>Returned
    /\ [](bench.exec.child = "exited" => <>(bench.exec.reader = "done"))

====
